---- MODULE Spec2Model ----
(***************************************************************************)
(* Non-rigid registration core of suite2p/registration/nonrigid.py.        *)
(*                                                                         *)
(* Four state machines share the module's variables; each specification    *)
(* runs one of them and leaves the others idle:                            *)
(*   SpecBlocks    make_blocks / calculate_nblocks                         *)
(*   SpecPhasecorr phasecorr / getSNR                                      *)
(*   SpecInterp    shift_coordinates / block_interp / map_coordinates      *)
(*   SpecCache     the lru_cache around mat_upsample                       *)
(***************************************************************************)
EXTENDS Integers, Sequences, FiniteSets, TLC

VARIABLES
    mbArgs,     \* make_blocks: the arguments of the last call
    mbOut,      \* make_blocks: what the last call produced (status idle: no call yet)
    itCall,     \* frame loop: "shift_coordinates" or "block_interp"
    itIn,       \* frame loop: the read-only arguments of the call
    itOut,      \* frame loop: the output arrays Y, yup, xup the workers write
    itPos,      \* frame loop: per frame index t, the pixels its worker has written
    cache,      \* mat_upsample: the lru_cache entries, least recently used first
    cLast,      \* mat_upsample: what the last call did
    pcArgs,     \* phasecorr: the arguments of the call
    pcAt,       \* phasecorr: where the call is (start, smooth, peaks, returned, error)
    pcLoc       \* phasecorr: its local variables

blockVars == <<mbArgs, mbOut>>
interpVars == <<itCall, itIn, itOut, itPos>>
cacheVars == <<cache, cLast>>
phasecorrVars == <<pcArgs, pcAt, pcLoc>>
vars == <<mbArgs, mbOut, itCall, itIn, itOut, itPos, cache, cLast,
          pcArgs, pcAt, pcLoc>>

(***************************************************************************)
(* Integer arithmetic helpers                                              *)
(***************************************************************************)
Min(a, b) == IF a <= b THEN a ELSE b
Max(a, b) == IF a >= b THEN a ELSE b
Abs(a) == IF a >= 0 THEN a ELSE -a

\* C / numpy conversion of the rational a/b (b > 0) to an integer:
\* truncation toward zero.
TruncDiv(a, b) == IF a >= 0 THEN a \div b ELSE -((-a) \div b)

\* ceil of the rational p/q, q # 0.
CeilDiv(p, q) == IF q > 0 THEN -((-p) \div q) ELSE -(p \div (-q))

(***************************************************************************)
(* Block partitioner                                                       *)
(***************************************************************************)
MaxL == 9          \* axis lengths are drawn from -1 .. MaxL
MaxB == 9          \* nominal block sizes are drawn from -1 .. MaxB

\* calculate_nblocks without the overlap factor 1.5: ceil(L / block_size)
\* blocks.
calculate_nblocks_ceilLB(L, block_size) ==
    IF block_size >= L THEN [err |-> FALSE, size |-> L, n |-> 1]
    ELSE IF block_size = 0 THEN [err |-> TRUE, size |-> 0, n |-> 0]
    ELSE [err |-> FALSE, size |-> block_size, n |-> CeilDiv(L, block_size)]

\* calculate_nblocks(L, block_size): (L, 1) when block_size >= L, else
\* (block_size, int(ceil(1.5 * L / block_size))).  1.5*L/0 raises
\* ZeroDivisionError.  1.5*L/B = 3L/(2B); the double quotient is the
\* correctly rounded one, and its ceil is the exact ceil for |B| < 2^50.
calculate_nblocks(L, block_size) ==
    IF block_size >= L THEN [err |-> FALSE, size |-> L, n |-> 1]
    ELSE IF block_size = 0 THEN [err |-> TRUE, size |-> 0, n |-> 0]
    ELSE [err |-> FALSE, size |-> block_size,
          n |-> CeilDiv(3 * L, 2 * block_size)]

\* Nearest integer of the rational a/b (a >= 0, b > 0), halves up.
RoundDiv(a, b) == (2 * a + b) \div (2 * b)

\* np.linspace(0, stop, n) with np.round in place of the truncation.
linspace_int_rounded(stop, n) ==
    [i \in 1..n |->
        IF n = 1 THEN 0
        ELSE IF i = n THEN stop
        ELSE RoundDiv((i - 1) * stop, n - 1)]

\* np.linspace(0, stop, n).astype('int') for n >= 0: element i (from 0) is
\* i * (stop / (n-1)), the last one is set to stop itself, a single
\* element is the start 0; astype('int') truncates toward zero.  The double
\* product i * (stop/(n-1)) truncates to the same integer as the exact
\* rational for every stop below 62, which covers the bounds used here.
linspace_int(stop, n) ==
    [i \in 1..n |->
        IF n = 1 THEN 0
        ELSE IF i = n THEN stop
        ELSE TruncDiv((i - 1) * stop, n - 1)]

\* One axis of make_blocks: the effective size, the count and the starts.
\* np.linspace raises ValueError for a negative count.
axis_blocks(L, block_size) ==
    LET c == calculate_nblocks(L, block_size)
    IN  IF c.err \/ c.n < 0
        THEN [err |-> TRUE, size |-> 0, n |-> 0, start |-> <<>>]
        ELSE [err |-> FALSE, size |-> c.size, n |-> c.n,
              start |-> linspace_int(L - c.size, c.n)]

\* make_blocks(Ly, Lx, block_size): the block lists in row-major order
\* (block k, from 0, is row k div nx and column k mod nx), [ny, nx], the
\* effective block size and the side of the square smoothing matrix NRsm
\* (kernelD2 over the ny * nx block-grid points).
make_blocks(Ly, Lx, bsy, bsx) ==
    LET ay == axis_blocks(Ly, bsy)
        ax == axis_blocks(Lx, bsx)
    IN  IF ay.err \/ ax.err
        THEN [status |-> "error"]
        ELSE [status |-> "ok",
              yblock |-> [k \in 1..(ay.n * ax.n) |->
                            <<ay.start[((k - 1) \div ax.n) + 1],
                              ay.start[((k - 1) \div ax.n) + 1] + ay.size>>],
              xblock |-> [k \in 1..(ay.n * ax.n) |->
                            <<ax.start[((k - 1) % ax.n) + 1],
                              ax.start[((k - 1) % ax.n) + 1] + ax.size>>],
              nblocks |-> <<ay.n, ax.n>>,
              block_size |-> <<ay.size, ax.size>>,
              NRsmSide |-> ay.n * ax.n]

IdleBlocks ==
    /\ mbArgs = [Ly |-> 0, Lx |-> 0, bsy |-> 0, bsx |-> 0]
    /\ mbOut = [status |-> "idle"]

\* The call make_blocks(Ly, Lx, block_size=(bsy, bsx)); the function keeps
\* no state between calls, so one call from the idle state shows them all.
MakeBlocks(Ly, Lx, bsy, bsx) ==
    /\ mbOut.status = "idle"
    /\ mbArgs' = [Ly |-> Ly, Lx |-> Lx, bsy |-> bsy, bsx |-> bsx]
    /\ mbOut' = make_blocks(Ly, Lx, bsy, bsx)


(***************************************************************************)
(* Resampler: map_coordinates and the parallel frame loops                 *)
(***************************************************************************)
NFrames == 2       \* frames in the stack (nimg)
GridLy == 2        \* rows of the frames and of the block-shift grids
GridLx == 2        \* columns of the frames and of the block-shift grids
Q == 2             \* coordinates are fixed-point numbers in units of 1/Q
MaxShiftQ == 3     \* displacements are drawn from -MaxShiftQ .. MaxShiftQ (units of 1/Q)

Frames == 0..(NFrames - 1)
Rows == 0..(GridLy - 1)
Cols == 0..(GridLx - 1)
NPix == GridLy * GridLx
PixRow(k) == k \div GridLx
PixCol(k) == k % GridLx

\* yc.astype(np.int32): the C conversion of a float to an int, which
\* truncates toward zero (c is the coordinate in units of 1/Q).
astype_int32(c) == TruncDiv(c, Q)

\* One iteration (i, j) of map_coordinates' loops on source I (Ly x Lx):
\* the clamped corner indices, the fractional parts y, x (units of 1/Q)
\* and the blended value (units of 1/Q^2; the float32 arithmetic is exact
\* for these dyadic operands).
map_pixel(I, Ly, Lx, ycq, xcq) ==
    LET yc_floor == astype_int32(ycq)
        xc_floor == astype_int32(xcq)
        y == ycq - Q * yc_floor
        x == xcq - Q * xc_floor
        yf == Min(Ly - 1, Max(0, yc_floor))
        xf == Min(Lx - 1, Max(0, xc_floor))
        yf1 == Min(Ly - 1, yf + 1)
        xf1 == Min(Lx - 1, xf + 1)
    IN  [yc_floor |-> yc_floor, xc_floor |-> xc_floor,
         yf |-> yf, xf |-> xf, yf1 |-> yf1, xf1 |-> xf1, y |-> y, x |-> x,
         val |-> I[yf][xf] * (Q - y) * (Q - x) + I[yf][xf1] * (Q - y) * x
                 + I[yf1][xf] * y * (Q - x) + I[yf1][xf1] * y * x]

\* map_coordinates(I, yc, xc, Y) as a whole: the array it leaves in Y.
map_coordinates(I, yc, xc) ==
    [i \in Rows |-> [j \in Cols |->
        map_pixel(I, GridLy, GridLx, yc[i][j], xc[i][j]).val]]

\* The source grids the calls are given: frame t of stack g.
Grid(g, t) == [i \in Rows |-> [j \in Cols |-> (g + 2 * t) * (3 * i + j) - 2 * g * j]]
ZeroGrid == [i \in Rows |-> [j \in Cols |-> 0]]

\* shift_coordinates(data, yup, xup, mshy, mshx, Y): mshy, mshx are the
\* pixel meshgrid of transform_data and yup, xup per-pixel displacements.
ShiftArgs(g, sy, sx) ==
    [data |-> [t \in Frames |-> Grid(g, t)],
     data2 |-> [t \in Frames |-> ZeroGrid],
     yup |-> [t \in Frames |-> [i \in Rows |-> [j \in Cols |-> sy + t - j]]],
     xup |-> [t \in Frames |-> [i \in Rows |-> [j \in Cols |-> sx - t + i]]],
     mshy |-> [i \in Rows |-> [j \in Cols |-> Q * i]],
     mshx |-> [i \in Rows |-> [j \in Cols |-> Q * j]]]

\* block_interp(ymax1, xmax1, mshy, mshx, yup, xup): mshy, mshx are the
\* fractional block-grid coordinates np.interp gives, inside the grid.
InterpArgs(g, sy, sx) ==
    [data |-> [t \in Frames |-> Grid(g, t)],
     data2 |-> [t \in Frames |-> Grid(g + 1, t)],
     yup |-> [t \in Frames |-> ZeroGrid],
     xup |-> [t \in Frames |-> ZeroGrid],
     mshy |-> [i \in Rows |-> [j \in Cols |-> Min(Abs(sy) + i, Q * (GridLy - 1))]],
     mshx |-> [i \in Rows |-> [j \in Cols |-> Min(Abs(sx) + j, Q * (GridLx - 1))]]]

\* The map_coordinates calls iteration t of the prange loop makes, in
\* order: the source, the coordinate grids and the output array.
FrameJobs(call, in, t) ==
    IF call = "shift_coordinates"
    THEN << [I |-> in.data[t],
             yc |-> [i \in Rows |-> [j \in Cols |-> in.mshy[i][j] + in.yup[t][i][j]]],
             xc |-> [i \in Rows |-> [j \in Cols |-> in.mshx[i][j] + in.xup[t][i][j]]],
             out |-> "Y"] >>
    ELSE << [I |-> in.data[t], yc |-> in.mshy, xc |-> in.mshx, out |-> "yup"],
            [I |-> in.data2[t], yc |-> in.mshy, xc |-> in.mshx, out |-> "xup"] >>

NJobs(call) == IF call = "shift_coordinates" THEN 1 ELSE 2

\* Every iteration writing slice 0 of the output array.
out_slice_shared(t) == 0

\* The slice of the output array that iteration t writes: Y[t], yup[t], xup[t].
out_slice(t) == t

ZeroOut == [a \in {"Y", "yup", "xup"} |-> [t \in Frames |-> ZeroGrid]]

IdleInterp ==
    /\ itCall = "idle"
    /\ itIn = <<>>
    /\ itOut = <<>>
    /\ itPos = <<>>

\* The caller (transform_data, upsample_block_shifts) allocates the outputs
\* with np.zeros and starts the parallel loop.
StartInterp ==
    \E call \in {"shift_coordinates", "block_interp"}, g \in {1},
       sy \in -MaxShiftQ..MaxShiftQ, sx \in {-MaxShiftQ, -1, 0, MaxShiftQ} :
        /\ itCall = call
        /\ itIn = IF call = "shift_coordinates" THEN ShiftArgs(g, sy, sx)
                  ELSE InterpArgs(g, sy, sx)
        /\ itOut = ZeroOut
        /\ itPos = [t \in Frames |-> 0]

\* The worker of frame index t runs one more iteration of map_coordinates'
\* pixel loop; prange gives the workers no order among themselves.
FrameWorkerStep(t) ==
    /\ itCall # "idle"
    /\ itPos[t] < NJobs(itCall) * NPix
    /\ LET job == FrameJobs(itCall, itIn, t)[(itPos[t] \div NPix) + 1]
           k == itPos[t] % NPix
           i == PixRow(k)
           j == PixCol(k)
           px == map_pixel(job.I, GridLy, GridLx, job.yc[i][j], job.xc[i][j])
       IN  itOut' = [itOut EXCEPT ![job.out][out_slice(t)][i][j] = px.val]
    /\ itPos' = [itPos EXCEPT ![t] = @ + 1]
    /\ UNCHANGED <<itCall, itIn>>


(***************************************************************************)
(* Upsampling kernel cache: @lru_cache(maxsize=5) around mat_upsample      *)
(***************************************************************************)
CacheMaxSize == 5          \* lru_cache(maxsize=5)
DefaultSubpixel == 10      \* mat_upsample(lpad, subpixel: int = 10)
MaxRadius == 2             \* radii are drawn from 1 .. MaxRadius
SubpixelArgs == {5, DefaultSubpixel}

\* mat_upsample's body: nup is the length of arange(-lpad, lpad + .001,
\* 1/subpixel), and Kmat maps the (2*lpad+1)^2 patch to the nup^2 fine grid.
mat_upsample(lpad, subpixel) ==
    [lpad |-> lpad, subpixel |-> subpixel,
     rows |-> (2 * lpad + 1) * (2 * lpad + 1),
     nup |-> 2 * lpad * subpixel + 1]

\* The parameters the body runs with for a call: a subpixel factor that is
\* not passed takes the default.
BoundArgs(call) ==
    [lpad |-> call.lpad,
     subpixel |-> IF call.form = "lpad, subpixel" THEN call.subpixel
                  ELSE DefaultSubpixel]

\* functools' key of a call: the positional arguments as passed, then the
\* keyword arguments as passed; defaults are not filled in, so the call
\* itself (its form and the values it names) is the key.
make_key(call) == call

CacheKeys == {cache[i].key : i \in DOMAIN cache}
CachedPairs == {BoundArgs(cache[i].key) : i \in DOMAIN cache}

IdleCache ==
    /\ cache = <<>>
    /\ cLast = [called |-> FALSE]

\* One call of the decorated mat_upsample.  A hit moves the entry to the
\* most recently used end and returns its value; a miss runs the body,
\* drops the least recently used entry when the cache is full, and appends
\* the new entry.
CallMatUpsample(call) ==
    LET key == make_key(call)
        hit == key \in CacheKeys
        idx == CHOOSE i \in DOMAIN cache : cache[i].key = key
        full == Len(cache) >= CacheMaxSize
        built == mat_upsample(BoundArgs(call).lpad, BoundArgs(call).subpixel)
        kept == IF full THEN Tail(cache) ELSE cache
    IN  /\ cache' =
            IF hit
            THEN Append(SubSeq(cache, 1, idx - 1) \o SubSeq(cache, idx + 1, Len(cache)),
                        cache[idx])
            ELSE Append(kept, [key |-> key, val |-> built])
        /\ cLast' = [called |-> TRUE,
                     call |-> call,
                     pair |-> BoundArgs(call),
                     pairWasCached |-> BoundArgs(call) \in CachedPairs,
                     sizeBefore |-> Len(cache),
                     pairsBefore |-> CachedPairs,
                     lruPairBefore |-> IF cache = <<>> THEN BoundArgs(call)
                                       ELSE BoundArgs(cache[1].key),
                     rebuilt |-> ~hit,
                     result |-> IF hit THEN cache[idx].val ELSE built]


(***************************************************************************)
(* Phase-correlation estimator: getSNR and phasecorr                       *)
(***************************************************************************)
NBlocks == 2       \* blocks in the layout (nb)
NImg == 2          \* frames in the batch (nimg)
MaxLpad == 3       \* lpad is drawn from 1 .. MaxLpad
MaxShift2 == 3     \* maxregshiftNR is drawn from 0 .. MaxShift2 halves of a pixel
UpsampleLpad == 3  \* Kmat, nup = mat_upsample(lpad=3)

Blocks == 0..(NBlocks - 1)
Imgs == 0..(NImg - 1)

\* np.round of h/2 (h >= 0): halves go to the even neighbour.
np_round_half(h) ==
    LET r == h \div 2
    IN  IF h % 2 = 0 THEN r ELSE IF r % 2 = 0 THEN r ELSE r + 1

\* A correlation surface is held as the function from its non-zero cells
\* <<row, column>> (both from 0) to their values; every other cell is 0.
At(cc, p) == IF p \in DOMAIN cc THEN cc[p] ELSE 0
Cells(lo, hi) == (lo..hi) \X (lo..hi)

\* np.argmax over a region: the first maximum in row-major order.
ArgMaxFirst(cc, region) ==
    CHOOSE p \in region :
        \A q \in region :
            \/ At(cc, q) < At(cc, p)
            \/ /\ At(cc, q) = At(cc, p)
               /\ (p[1] < q[1] \/ (p[1] = q[1] /\ p[2] <= q[2]))

\* The slice getSNR sets to 0 for a best peak at (ymax, xmax) of the inner
\* window: cc0[j, ymax:ymax + 2*lpad, xmax:xmax + 2*lpad], in the rows and
\* columns of the full window.
snr_zero_slice(ymax, xmax, lpad) ==
    [rows |-> ymax..(ymax + 2 * lpad - 1), cols |-> xmax..(xmax + 2 * lpad - 1)]

\* getSNR(cc, (lcorr, lpad)) for one image of the batch (the images are
\* treated independently).  The SNR X1max / Xmax is kept as the pair
\* <<X1max, Xmax>>; err marks np.amax of an empty inner window.
getSNR(cc, lcorr, lpad) ==
    LET W == 2 * lcorr + 2 * lpad + 1
        inner == Cells(lpad, W - 1 - lpad)
    IN  IF inner = {} THEN [err |-> TRUE]
        ELSE
        LET pk == ArgMaxFirst(cc, inner)
            ymax == pk[1] - lpad
            xmax == pk[2] - lpad
            X1max == At(cc, pk)
            z == snr_zero_slice(ymax, xmax, lpad)
            cc0 == [q \in {q \in DOMAIN cc : ~(q[1] \in z.rows /\ q[2] \in z.cols)}
                        |-> cc[q]]
            top == ArgMaxFirst(cc0, Cells(0, W - 1))
            Xmax == Max(0, At(cc0, top))
        IN  [err |-> FALSE, snr |-> <<X1max, Xmax>>,
             peak |-> pk, zero |-> z,
             second |-> {q \in DOMAIN cc0 : cc0[q] = Xmax /\ Xmax > 0}]

\* snr < snr_thresh for snr = num/den in float arithmetic (x/0 is inf, -inf
\* or nan, and nan compares false) and snr_thresh = thn/thd, thd > 0.
snr_below(snr, thn, thd) ==
    IF snr[2] = 0 THEN snr[1] < 0
    ELSE snr[1] * thd < thn * snr[2]

\* The real part of the inverse FFT of one block of one frame, ly x lx: a
\* main correlation peak of height mv at shift (my, mx) and a second one of
\* height sv at shift (sy, sx), shifts taken modulo the block size.
CorrSurface(ly, lx, pkspec, r, c) ==
    (IF pkspec.my % ly = r /\ pkspec.mx % lx = c THEN pkspec.mv ELSE 0)
    + (IF pkspec.sy % ly = r /\ pkspec.sx % lx = c THEN pkspec.sv ELSE 0)

\* The source indices of the window along one axis of length len:
\* Y[-lhalf:] followed by Y[:lhalf + 1] (lhalf >= 1).
window_index(len, lhalf) ==
    LET tailN == Min(lhalf, len)
        headN == Min(lhalf + 1, len)
    IN  [a \in 1..(tailN + headN) |->
            IF a <= tailN THEN len - tailN + (a - 1) ELSE a - tailN - 1]

\* np.block of the four corner slices of Y: the window around zero shift.
corr_window(pkspec, ly, lx, lhalf) ==
    LET ri == window_index(ly, lhalf)
        ci == window_index(lx, lhalf)
        Y(q) == CorrSurface(ly, lx, pkspec, ri[q[1] + 1], ci[q[2] + 1])
    IN  [q \in {q \in (0..(Len(ri) - 1)) \X (0..(Len(ci) - 1)) : Y(q) # 0} |-> Y(q)]

RECURSIVE SmoothSum(_, _, _, _, _, _)
SmoothSum(NRsm, cc, n, t, q, m) ==
    IF m < 0 THEN 0
    ELSE SmoothSum(NRsm, cc, n, t, q, m - 1) + NRsm[n + 1][m + 1] * At(cc[m][t], q)

\* NRsm @ cc0: block n of the result is the NRsm-weighted sum of the
\* blocks.  NRsm is given as integer weights over the common denominator of
\* its rows, so a smoothed surface is held times that denominator; SNR and
\* argmax do not depend on a positive factor.
smooth(NRsm, cc) ==
    [n \in Blocks |-> [t \in Imgs |->
        LET cells == UNION {DOMAIN cc[m][t] : m \in Blocks}
            v(q) == SmoothSum(NRsm, cc, n, t, q, NBlocks - 1)
        IN  [q \in {q \in cells : v(q) # 0} |-> v(q)]]]

\* cc2 = [cc0, NRsm @ cc0, NRsm @ NRsm @ cc0] for the call's frames: cc0 is
\* the window of every block and frame.
cc2_levels(args, lcorr) ==
    LET cc0 == [n \in Blocks |-> [t \in Imgs |->
                 corr_window(args.surf[n][t], args.ly, args.lx, lcorr + args.lpad)]]
        cc1 == smooth(args.NRsm, cc0)
    IN  <<cc0, cc1, smooth(args.NRsm, cc1)>>

IdlePhasecorr ==
    /\ pcArgs = <<>>
    /\ pcAt = "idle"
    /\ pcLoc = <<>>

NoLocals ==
    [lcorr |-> 0, nup |-> 0, krows |-> 0, cc2 |-> <<>>, ccsm |-> <<>>,
     snr |-> <<>>, n |-> 0, j |-> 0, t |-> 0, round |-> <<>>,
     ymax1 |-> <<>>, xmax1 |-> <<>>, cmax1 |-> <<>>, snrCalls |-> {},
     sliced |-> FALSE, err |-> ""]

\* Lines 175-207: the upsampling operator, lcorr, the window of every block
\* and frame, and the three smoothing levels.  The reshape to
\* 2*lcorr + 2*lpad + 1 raises ValueError when the window np.block built
\* has another size (lcorr <= -lpad, or a block shorter than the window).
PhasecorrWindow ==
    /\ pcAt = "start"
    /\ LET K == mat_upsample(UpsampleLpad, DefaultSubpixel)
           maxregshift == np_round_half(pcArgs.maxshift2)
           lcorr == Min(maxregshift, (Min(pcArgs.ly, pcArgs.lx) \div 2) - pcArgs.lpad)
           lhalf == lcorr + pcArgs.lpad
           W == 2 * lcorr + 2 * pcArgs.lpad + 1
           fits == /\ lhalf >= 1
                   /\ Len(window_index(pcArgs.ly, lhalf)) = W
                   /\ Len(window_index(pcArgs.lx, lhalf)) = W
           levels == cc2_levels(pcArgs, lcorr)
       IN  IF fits
           THEN /\ pcLoc' = [NoLocals EXCEPT
                              !.lcorr = lcorr, !.nup = K.nup, !.krows = K.rows,
                              !.cc2 = levels, !.ccsm = levels[1],
                              !.snr = [t \in Imgs |-> <<1, 1>>],
                              !.round = [n \in Blocks |-> [t \in Imgs |-> 0]],
                              !.sliced = TRUE]
                /\ pcAt' = "smooth"
           ELSE /\ pcLoc' = [NoLocals EXCEPT
                              !.lcorr = lcorr, !.nup = K.nup, !.krows = K.rows,
                              !.sliced = TRUE, !.err = "reshape"]
                /\ pcAt' = "error"
    /\ UNCHANGED <<pcArgs, blockVars, interpVars, cacheVars>>

\* The loop over the blocks has ended: on to the peaks.
AfterBlock(n) == IF n + 1 = NBlocks THEN "peaks" ELSE "smooth"

\* Lines 209-218: one iteration j of the loop over the smoothing levels for
\* block n (snr starts as ones for each block).  With no frame below the
\* threshold the loop breaks; otherwise the frames below it take level j
\* (for j > 0) and their SNR is computed on it.
PhasecorrSmoothRound ==
    /\ pcAt = "smooth"
    /\ LET n == pcLoc.n
           j == pcLoc.j
           ism == {t \in Imgs : snr_below(pcLoc.snr[t], pcArgs.thn, pcArgs.thd)}
           c2 == pcLoc.cc2[j + 1]
           res == [t \in ism |-> getSNR(c2[n][t], pcLoc.lcorr, pcArgs.lpad)]
           ones == [t \in Imgs |-> <<1, 1>>]
       IN  IF ism = {}
           THEN /\ pcLoc' = [pcLoc EXCEPT !.n = n + 1, !.j = 0, !.snr = ones]
                /\ pcAt' = AfterBlock(n)
           ELSE IF \E t \in ism : res[t].err
           THEN /\ pcLoc' = [pcLoc EXCEPT !.err = "amax of an empty window"]
                /\ pcAt' = "error"
           ELSE /\ pcLoc' = [pcLoc EXCEPT
                    !.ccsm = IF j > 0
                             THEN [pcLoc.ccsm EXCEPT ![n] =
                                    [t \in Imgs |-> IF t \in ism THEN c2[n][t]
                                                    ELSE pcLoc.ccsm[n][t]]]
                             ELSE pcLoc.ccsm,
                    !.round = [pcLoc.round EXCEPT ![n] =
                                    [t \in Imgs |-> IF t \in ism THEN j
                                                    ELSE pcLoc.round[n][t]]],
                    !.snrCalls = {[n |-> n, t |-> t, j |-> j, peak |-> res[t].peak,
                                   zero |-> res[t].zero, second |-> res[t].second,
                                   snr |-> res[t].snr] : t \in ism},
                    !.snr = IF j = 2 THEN ones
                            ELSE [t \in Imgs |-> IF t \in ism THEN res[t].snr
                                                 ELSE pcLoc.snr[t]],
                    !.n = IF j = 2 THEN n + 1 ELSE n,
                    !.j = IF j = 2 THEN 0 ELSE j + 1]
                /\ pcAt' = IF j = 2 THEN AfterBlock(n) ELSE "smooth"
    /\ UNCHANGED <<pcArgs, blockVars, interpVars, cacheVars>>

\* The index along one axis of the fine grid where ccmat @ Kmat peaks, for
\* a patch whose largest node is node (from 0).  Kmat reproduces the patch
\* at the nodes, which lie DefaultSubpixel fine steps apart; the peak of the
\* interpolated surface lies off, in fine-grid steps, from that node, inside
\* the grid.
fine_peak(node, off, nup) == Min(nup - 1, Max(0, node * DefaultSubpixel + off))

\* Lines 226-238 for frame t: the integer peak of every block in the inner
\* window, the patch around it, the fine grid ccmat @ Kmat and the shifts.
\* np.argmax of an empty inner window and a patch whose flattened length is
\* not the number of rows of Kmat raise ValueError.
PhasecorrPeakFrame ==
    /\ pcAt = "peaks"
    /\ LET t == pcLoc.t
           lpad == pcArgs.lpad
           lcorr == pcLoc.lcorr
           W == 2 * lcorr + 2 * lpad + 1
           inner == Cells(lpad, W - 1 - lpad)
           mdpt == pcLoc.nup \div 2
           one(n) ==
               LET cc == pcLoc.ccsm[n][t]
                   pk == ArgMaxFirst(cc, inner)
                   ym == pk[1] - lpad
                   xm == pk[2] - lpad
                   ccmat == [q \in {q \in Cells(0, 2 * lpad) :
                                        <<ym + q[1], xm + q[2]>> \in DOMAIN cc}
                                |-> cc[<<ym + q[1], xm + q[2]>>]]
                   node == ArgMaxFirst(ccmat, Cells(0, 2 * lpad))
                   fy == fine_peak(node[1], pcArgs.fineOff[1], pcLoc.nup)
                   fx == fine_peak(node[2], pcArgs.fineOff[2], pcLoc.nup)
               IN  [ym |-> ym, xm |-> xm, fy |-> fy, fx |-> fx,
                    \* ymax1 and xmax1 times subpixel
                    y |-> (fy - mdpt) + (ym - lcorr) * pcArgs.subpixel,
                    x |-> (fx - mdpt) + (xm - lcorr) * pcArgs.subpixel,
                    c |-> At(ccmat, node)]
       IN  IF inner = {}
           THEN /\ pcLoc' = [pcLoc EXCEPT !.err = "argmax of an empty window"]
                /\ pcAt' = "error"
           ELSE IF (2 * lpad + 1) * (2 * lpad + 1) # pcLoc.krows
           THEN /\ pcLoc' = [pcLoc EXCEPT !.err = "matmul shape"]
                /\ pcAt' = "error"
           ELSE /\ pcLoc' = [pcLoc EXCEPT
                    !.ymax1 = Append(@, [n \in Blocks |-> one(n)]),
                    !.t = t + 1]
                /\ pcAt' = IF t + 1 = NImg THEN "returned" ELSE "peaks"
    /\ UNCHANGED <<pcArgs, blockVars, interpVars, cacheVars>>

\* The smoothing matrices the calls are given, as integer weights over the
\* row sum: a peaked one and a flat one.
NRsmChoices ==
    { [n \in 1..NBlocks |-> [m \in 1..NBlocks |-> IF n = m THEN 3 ELSE 1]],
      [n \in 1..NBlocks |-> [m \in 1..NBlocks |-> 2]] }

PeakSpec(my, mx, mv, sy, sx, sv) ==
    [my |-> my, mx |-> mx, mv |-> mv, sy |-> sy, sx |-> sx, sv |-> sv]

\* The surfaces of the signal family, for a window of half-width lhalf:
\* a clear peak, two near-equal peaks, a peak lower than a value outside
\* the search range, and a second peak lpad rows below the best one.
Scenario(k, lcorr, lpad) ==
    LET lhalf == lcorr + lpad
    IN  CASE k = 1 -> PeakSpec(0, 0, 8, -lhalf, -lhalf, 2)
          [] k = 2 -> PeakSpec(0, 0, 8, -lhalf, lhalf, 7)
          [] k = 3 -> PeakSpec(-lcorr, -lcorr, 8, lhalf, lhalf, 9)
          [] OTHER -> PeakSpec(lcorr, lcorr, 6, lcorr + lpad, lcorr, 5)

BlockDims == {<<8, 8>>, <<6, 8>>, <<8, 4>>, <<8, 1>>}
Thresholds == {<<1, 1>>, <<6, 5>>, <<2, 1>>}

\* Calls that vary the geometry: lpad, subpixel, maxregshiftNR, the block
\* size and the place of the best peak.
StartGeometry ==
    \E lpad \in 1..MaxLpad, subpixel \in SubpixelArgs, ms \in 0..MaxShift2,
       dims \in BlockDims, th \in {<<1, 1>>, <<6, 5>>},
       pk \in {<<-1, -1>>, <<0, 0>>, <<1, 1>>, <<1, -1>>} :
        pcArgs = [lpad |-> lpad, subpixel |-> subpixel, maxshift2 |-> ms,
                  ly |-> dims[1], lx |-> dims[2], thn |-> th[1], thd |-> th[2],
                  NRsm |-> [n \in 1..NBlocks |-> [m \in 1..NBlocks |-> IF n = m THEN 3 ELSE 1]],
                  surf |-> [n \in Blocks |-> [t \in Imgs |->
                              IF n = 0 /\ t = 0
                              THEN PeakSpec(pk[1], pk[2], 6, pk[1] + lpad, pk[2], 5)
                              ELSE PeakSpec(0, 0, 8, 2, 2, 2)]],
                  fineOff |-> <<0, 0>>]

\* Calls that vary the signal, with the default lpad and subpixel.
StartSignal ==
    \E th \in Thresholds, NRsm \in NRsmChoices,
       ks \in [Blocks -> [Imgs -> 1..4]],
       off \in {<<0, 0>>, <<-4, 3>>} :
        pcArgs = [lpad |-> UpsampleLpad, subpixel |-> DefaultSubpixel,
                  maxshift2 |-> 2, ly |-> 8, lx |-> 8,
                  thn |-> th[1], thd |-> th[2], NRsm |-> NRsm,
                  surf |-> [n \in Blocks |-> [t \in Imgs |->
                              Scenario(ks[n][t], 1, UpsampleLpad)]],
                  fineOff |-> off]

StartPhasecorr ==
    /\ StartGeometry \/ StartSignal
    /\ pcAt = "start"
    /\ pcLoc = NoLocals

InitBlocks == IdleBlocks /\ IdleInterp /\ IdleCache /\ IdlePhasecorr

NextBlocks ==
    /\ \E Ly \in -1..MaxL, Lx \in -1..MaxL, bsy \in -1..MaxB, bsx \in -1..MaxB :
            MakeBlocks(Ly, Lx, bsy, bsx)
    /\ UNCHANGED <<interpVars, cacheVars, phasecorrVars>>

SpecBlocks == InitBlocks /\ [][NextBlocks]_vars

InitInterp == IdleBlocks /\ StartInterp /\ IdleCache /\ IdlePhasecorr

NextInterp ==
    /\ \E t \in Frames : FrameWorkerStep(t)
    /\ UNCHANGED <<blockVars, cacheVars, phasecorrVars>>

SpecInterp == InitInterp /\ [][NextInterp]_vars

InitCache == IdleBlocks /\ IdleInterp /\ IdleCache /\ IdlePhasecorr

\* The three ways the callers can write the call: mat_upsample(r),
\* mat_upsample(lpad=r) and mat_upsample(r, sp).
CallPositional ==
    /\ \E r \in 1..MaxRadius : CallMatUpsample([form |-> "lpad", lpad |-> r, subpixel |-> 0])
    /\ UNCHANGED <<blockVars, interpVars, phasecorrVars>>

CallKeyword ==
    /\ \E r \in 1..MaxRadius : CallMatUpsample([form |-> "lpad=", lpad |-> r, subpixel |-> 0])
    /\ UNCHANGED <<blockVars, interpVars, phasecorrVars>>

CallBothArgs ==
    /\ \E r \in 1..MaxRadius, sp \in SubpixelArgs :
          CallMatUpsample([form |-> "lpad, subpixel", lpad |-> r, subpixel |-> sp])
    /\ UNCHANGED <<blockVars, interpVars, phasecorrVars>>

NextCache == CallPositional \/ CallKeyword \/ CallBothArgs

SpecCache == InitCache /\ [][NextCache]_vars

InitPhasecorr == IdleBlocks /\ IdleInterp /\ IdleCache /\ StartPhasecorr

NextPhasecorr == PhasecorrWindow \/ PhasecorrSmoothRound \/ PhasecorrPeakFrame

SpecPhasecorr == InitPhasecorr /\ [][NextPhasecorr]_vars

----------------------------------------------------------------------------
(***************************************************************************)
(* Claims about the block partitioner                                      *)
(***************************************************************************)
Called == mbOut.status # "idle"
Returned == Called /\ mbOut.status = "ok"

\* The starts of the blocks of one axis, read back from the block list.
YStarts == [iy \in 1..mbOut.nblocks[1] |->
                mbOut.yblock[(iy - 1) * mbOut.nblocks[2] + 1][1]]
XStarts == [ix \in 1..mbOut.nblocks[2] |-> mbOut.xblock[ix][1]]

AxisCovered(L, size, starts) ==
    \A p \in 0..(L - 1) :
        \E i \in DOMAIN starts : starts[i] <= p /\ p < starts[i] + size

AxisInBounds(L, size, starts) ==
    \A i \in DOMAIN starts : 0 <= starts[i] /\ starts[i] + size <= L

AxisCount(L, B, size, n) ==
    IF B < L THEN n = CeilDiv(3 * L, 2 * B) /\ size = B
    ELSE n = 1 /\ size = L

\* C1: for every axis length L >= 1 and nominal block size B >= 1, every
\* pixel index 0..L-1 lies in a block, every block stays inside [0, L], and
\* the axis has ceil(1.5*L/B) blocks when B < L and one block of size L
\* otherwise; make_blocks returns a layout for such arguments.
C1_BlocksCoverAxis ==
    Called /\ mbArgs.Ly >= 1 /\ mbArgs.Lx >= 1
           /\ mbArgs.bsy >= 1 /\ mbArgs.bsx >= 1
    => /\ Returned
       /\ Len(mbOut.yblock) = mbOut.nblocks[1] * mbOut.nblocks[2]
       /\ Len(mbOut.xblock) = mbOut.nblocks[1] * mbOut.nblocks[2]
       /\ \A k \in DOMAIN mbOut.yblock :
            /\ mbOut.yblock[k][1] = YStarts[((k - 1) \div mbOut.nblocks[2]) + 1]
            /\ mbOut.xblock[k][1] = XStarts[((k - 1) % mbOut.nblocks[2]) + 1]
            /\ mbOut.yblock[k][2] = mbOut.yblock[k][1] + mbOut.block_size[1]
            /\ mbOut.xblock[k][2] = mbOut.xblock[k][1] + mbOut.block_size[2]
       /\ AxisCovered(mbArgs.Ly, mbOut.block_size[1], YStarts)
       /\ AxisCovered(mbArgs.Lx, mbOut.block_size[2], XStarts)
       /\ AxisInBounds(mbArgs.Ly, mbOut.block_size[1], YStarts)
       /\ AxisInBounds(mbArgs.Lx, mbOut.block_size[2], XStarts)
       /\ AxisCount(mbArgs.Ly, mbArgs.bsy, mbOut.block_size[1], mbOut.nblocks[1])
       /\ AxisCount(mbArgs.Lx, mbArgs.bsx, mbOut.block_size[2], mbOut.nblocks[2])

\* A layout with several overlapping blocks on each axis (7 pixels in
\* blocks of 3 gives 4 blocks, 8 pixels in blocks of 5 gives 3).
C1_Witness ==
    /\ Returned
    /\ mbArgs = [Ly |-> 7, Lx |-> 8, bsy |-> 3, bsx |-> 5]
    /\ mbOut.nblocks = <<4, 3>>

\* Start i (from 0) is within 1/2 of the interpolant i * (L - S) / (n - 1).
AxisNearest(L, size, starts) ==
    LET n == Len(starts)
    IN  \A i \in 1..n :
            IF n = 1 THEN starts[i] = 0
            ELSE 2 * Abs(starts[i] * (n - 1) - (i - 1) * (L - size)) <= n - 1

\* Start i (from 0) is the integer part of the interpolant
\* i * (L - S) / (n - 1); the first start is 0 and, with n >= 2, the last
\* block ends at L.
AxisFloor(L, size, starts) ==
    LET n == Len(starts)
    IN  /\ \A i \in 1..n :
            IF n = 1 THEN starts[i] = 0
            ELSE /\ starts[i] * (n - 1) <= (i - 1) * (L - size)
                 /\ (i - 1) * (L - size) < (starts[i] + 1) * (n - 1)
        /\ starts[1] = 0
        /\ n >= 2 => starts[n] + size = L

ValidArgs ==
    Called /\ mbArgs.Ly >= 1 /\ mbArgs.Lx >= 1
           /\ mbArgs.bsy >= 1 /\ mbArgs.bsx >= 1

\* C7 as stated: the starts are the n values of the linear interpolation
\* from 0 to L - S, each rounded to the nearest integer; the first block
\* starts at 0 and, when n >= 2, the last block ends at L.
C7_StartsRoundedToNearest ==
    ValidArgs
    => /\ AxisNearest(mbArgs.Ly, mbOut.block_size[1], YStarts)
       /\ AxisNearest(mbArgs.Lx, mbOut.block_size[2], XStarts)
       /\ YStarts[1] = 0 /\ XStarts[1] = 0
       /\ mbOut.nblocks[1] >= 2
            => YStarts[mbOut.nblocks[1]] + mbOut.block_size[1] = mbArgs.Ly
       /\ mbOut.nblocks[2] >= 2
            => XStarts[mbOut.nblocks[2]] + mbOut.block_size[2] = mbArgs.Lx

\* C7 amended: the starts are the n values of the linear interpolation from
\* 0 to L - S, each truncated to the integer below it (not rounded to the
\* nearest); the first block starts at 0 and, when n >= 2, the last block
\* ends at L.
C7_StartsTruncated ==
    ValidArgs
    => /\ AxisFloor(mbArgs.Ly, mbOut.block_size[1], YStarts)
       /\ AxisFloor(mbArgs.Lx, mbOut.block_size[2], XStarts)

\* 7 pixels in blocks of 3: the interpolants are 0, 4/3, 8/3, 4 and the
\* starts 0, 1, 2, 4, where rounding would give 3 for the third.
C7_Witness ==
    /\ Returned
    /\ mbArgs.Ly = 7 /\ mbArgs.bsy = 3 /\ mbArgs.Lx >= 1 /\ mbArgs.bsx >= 1
    /\ YStarts = <<0, 1, 2, 4>>

\* C9: make_blocks ends in an error, and returns no layout, whenever a
\* frame dimension or a requested block size is non-positive.
C9_NonPositiveGeometryFails ==
    Called /\ (mbArgs.Ly <= 0 \/ mbArgs.Lx <= 0
               \/ mbArgs.bsy <= 0 \/ mbArgs.bsx <= 0)
    => mbOut.status = "error"

----------------------------------------------------------------------------
(***************************************************************************)
(* Claims about the resampler                                              *)
(***************************************************************************)
InterpRunning == itCall # "idle"

\* Whether the worker of frame t has already run iteration (i, j) of its
\* m-th map_coordinates call.
Written(t, m, i, j) == itPos[t] > (m - 1) * NPix + i * GridLx + j

InterpDone == InterpRunning /\ \A t \in Frames : itPos[t] = NJobs(itCall) * NPix

\* What the sequential loop (for t in range(nimg)) leaves in array a.
SeqLoop(a) ==
    [t \in Frames |->
        LET jobs == FrameJobs(itCall, itIn, t)
        IN  IF \E m \in DOMAIN jobs : jobs[m].out = a
            THEN LET m == CHOOSE m \in DOMAIN jobs : jobs[m].out = a
                 IN  map_coordinates(jobs[m].I, jobs[m].yc, jobs[m].xc)
            ELSE ZeroGrid]

\* C6: in the parallel frame loops of shift_coordinates and block_interp the
\* worker of frame t writes only slice t of the outputs (Y[t], yup[t],
\* xup[t]), so at every point of every interleaving each output element is
\* either still the initial zero or the value the sequential loop gives it,
\* and when all workers are done the output is that of the sequential loop.
C6_FrameLoopDeterministic ==
    InterpRunning =>
        /\ \A a \in {"Y", "yup", "xup"}, t \in Frames, i \in Rows, j \in Cols :
             LET jobs == FrameJobs(itCall, itIn, t)
                 done == \E m \in DOMAIN jobs : jobs[m].out = a /\ Written(t, m, i, j)
             IN  itOut[a][t][i][j] = IF done THEN SeqLoop(a)[t][i][j] ELSE 0
        /\ InterpDone => \A a \in {"Y", "yup", "xup"} : itOut[a] = SeqLoop(a)

\* Both loops are seen finished with frames whose output slices differ.
C6_Witness ==
    /\ InterpDone
    /\ itCall = "block_interp"
    /\ itOut.yup[0] # itOut.yup[NFrames - 1]
    /\ itOut.xup[0] # itOut.xup[NFrames - 1]
    /\ itOut.yup[NFrames - 1] # ZeroGrid

\* The iterations of map_coordinates' pixel loop run so far.
PixelOps ==
    { [I |-> FrameJobs(itCall, itIn, t)[m].I,
       yc |-> FrameJobs(itCall, itIn, t)[m].yc[i][j],
       xc |-> FrameJobs(itCall, itIn, t)[m].xc[i][j]] :
        <<t, m, i, j>> \in
            { q \in Frames \X (1..NJobs(itCall)) \X Rows \X Cols :
                Written(q[1], q[2], q[3], q[4]) } }

\* C4: for every coordinate, negative ones included, map_coordinates takes
\* the floor of the coordinate, reads only source indices inside the image,
\* and blends the four pixels with weights in [0, 1] that sum to 1, so the
\* output stays within [min, max] of the four source values.
C4_BilinearWithinSourceRange ==
    InterpRunning =>
        \A op \in PixelOps :
            LET px == map_pixel(op.I, GridLy, GridLx, op.yc, op.xc)
                four == {op.I[px.yf][px.xf], op.I[px.yf][px.xf1],
                         op.I[px.yf1][px.xf], op.I[px.yf1][px.xf1]}
            IN  /\ px.yc_floor = op.yc \div Q
                /\ px.xc_floor = op.xc \div Q
                /\ {px.yf, px.yf1} \subseteq Rows
                /\ {px.xf, px.xf1} \subseteq Cols
                /\ 0 <= px.y /\ px.y <= Q
                /\ 0 <= px.x /\ px.x <= Q
                /\ \E lo \in four, hi \in four :
                        /\ \A v \in four : lo <= v /\ v <= hi
                        /\ lo * Q * Q <= px.val /\ px.val <= hi * Q * Q

----------------------------------------------------------------------------
(***************************************************************************)
(* Claims about the upsampling kernel cache                                *)
(***************************************************************************)
\* C5: the cache never holds more than 5 entries; a request for a (radius,
\* subpixel factor) pair that is cached returns the cached operator without
\* rebuilding it, however the pair is passed, and evicts nothing; a request
\* for a new pair while 5 entries are cached evicts exactly the least
\* recently used one.
C5_CacheKeyedByPair ==
    /\ Len(cache) <= CacheMaxSize
    /\ cLast.called =>
        /\ cLast.result = mat_upsample(cLast.pair.lpad, cLast.pair.subpixel)
        /\ cLast.pairWasCached =>
             /\ ~cLast.rebuilt
             /\ CachedPairs = cLast.pairsBefore
        /\ (~cLast.pairWasCached /\ cLast.sizeBefore = CacheMaxSize) =>
             CachedPairs = (cLast.pairsBefore \ {cLast.lruPairBefore}) \cup {cLast.pair}

----------------------------------------------------------------------------
(***************************************************************************)
(* Claims about the phase-correlation estimator                            *)
(***************************************************************************)
SmoothingOver == pcAt \in {"peaks", "returned"}

\* The smoothing level the SNR gate selects for block n of frame t: the
\* first of raw, smoothed once, smoothed twice whose SNR is not below the
\* threshold, and smoothed twice when none is.
GatedRound(n, t) ==
    LET below(j) == snr_below(getSNR(pcLoc.cc2[j + 1][n][t], pcLoc.lcorr,
                                     pcArgs.lpad).snr,
                              pcArgs.thn, pcArgs.thd)
    IN  IF ~below(0) THEN 0 ELSE IF ~below(1) THEN 1 ELSE 2

\* C2: for every (frame, block) and every snr_thresh, the surface returned
\* and used for peak finding is the raw one if its SNR is at or above
\* snr_thresh, otherwise the once-smoothed one if that one's SNR is at or
\* above snr_thresh, otherwise the twice-smoothed one; a pair whose raw SNR
\* meets the threshold is never altered.
C2_SurfaceChosenBySNR ==
    (SmoothingOver /\ pcLoc.lcorr >= 1) =>
        \A n \in Blocks, t \in Imgs :
            /\ pcLoc.round[n][t] = GatedRound(n, t)
            /\ pcLoc.ccsm[n][t] = pcLoc.cc2[GatedRound(n, t) + 1][n][t]

\* The same for thresholds above 1, where the code agrees with it.
SurfaceChosenBySNRAboveOne ==
    (SmoothingOver /\ pcLoc.lcorr >= 1 /\ pcArgs.thn > pcArgs.thd) =>
        \A n \in Blocks, t \in Imgs :
            /\ pcLoc.round[n][t] = GatedRound(n, t)
            /\ pcLoc.ccsm[n][t] = pcLoc.cc2[GatedRound(n, t) + 1][n][t]

\* C3: for every lpad >= 1 and subpixel factor s >= 1 the sub-pixel step
\* uses the operator built for (lpad, s): the (2*lpad+1)^2 patch is mapped
\* to a fine grid of side nup = 2*lpad*s + 1, the shift on each axis is
\* (integer peak - lcorr) + (fine peak - nup div 2) / s, the refinement lies
\* in [-lpad, lpad] and the shift in [-(lcorr+lpad), lcorr+lpad].
C3_UpsamplesWithCallersOperator ==
    LET lpad == pcArgs.lpad
        sp == pcArgs.subpixel
    IN  /\ pcAt = "error" => pcLoc.err # "matmul shape"
        /\ pcAt \in {"peaks", "returned"} =>
            /\ pcLoc.nup = 2 * lpad * sp + 1
            /\ pcLoc.krows = (2 * lpad + 1) * (2 * lpad + 1)
            /\ \A i \in DOMAIN pcLoc.ymax1, n \in Blocks :
                LET r == pcLoc.ymax1[i][n]
                    mdpt == (2 * lpad * sp + 1) \div 2
                IN  /\ r.y = (r.ym - pcLoc.lcorr) * sp + (r.fy - mdpt)
                    /\ r.x = (r.xm - pcLoc.lcorr) * sp + (r.fx - mdpt)
                    /\ Abs(r.fy - mdpt) <= lpad * sp
                    /\ Abs(r.fx - mdpt) <= lpad * sp
                    /\ Abs(r.y) <= (pcLoc.lcorr + lpad) * sp
                    /\ Abs(r.x) <= (pcLoc.lcorr + lpad) * sp

\* C8: phasecorr ends in an error, before any correlation window is sliced,
\* whenever lcorr is non-positive (lcorr = 0 included); in particular it
\* never returns shift estimates for such inputs.
C8_NonPositiveLcorrNeverReturns ==
    pcAt = "returned" => pcLoc.lcorr > 0

\* C10: in getSNR, for lpad >= 1, lcorr >= 1 and every place of the best
\* peak in the inner window, the region set to 0 holds the best peak and
\* every point of the full window within +-lpad of it on both axes, so the
\* second-best value never comes from a point at distance <= lpad.
C10_ZeroedRegionCentredOnPeak ==
    (pcAt \in {"smooth", "peaks", "returned"} /\ pcLoc.lcorr >= 1) =>
        \A c \in pcLoc.snrCalls :
            LET W == 2 * pcLoc.lcorr + 2 * pcArgs.lpad + 1
                near(q) == /\ Abs(q[1] - c.peak[1]) <= pcArgs.lpad
                           /\ Abs(q[2] - c.peak[2]) <= pcArgs.lpad
            IN  /\ c.peak[1] \in c.zero.rows /\ c.peak[2] \in c.zero.cols
                /\ \A q \in Cells(0, W - 1) :
                        near(q) => (q[1] \in c.zero.rows /\ q[2] \in c.zero.cols)
                /\ \A q \in c.second : ~near(q)

====
